---- MODULE Spec2Model ----
(***************************************************************************)
(* Model of the product listing of the marketplace backend:                *)
(*   config/database.js            the in-memory store (let products = []) *)
(*   controllers/productController.js   getProducts, createProduct         *)
(* as printed in INTERVIEW_GUIDE.md.  getProducts filters, sorts and       *)
(* paginates the array that db.getProducts() hands out.                    *)
(*                                                                         *)
(* JavaScript values are modelled as follows.                              *)
(*   - a query-string parameter is a sequence of one-character strings;    *)
(*     Undefined stands for a parameter that is not in req.query;          *)
(*   - a JS number is a record [nan, inf, v]: NaN, Infinity or integer v;  *)
(*   - a product is a record of the fields getProducts reads.              *)
(*                                                                         *)
(* and of the React frontend: context/AuthContext.jsx, CartContext.jsx,    *)
(* services/api.js, App.jsx, components/ProtectedRoute.jsx and the pages   *)
(* Products.jsx, ProductDetail.jsx and Cart.jsx.  A value that may be      *)
(* undefined or null is a sequence: <<>> or <<value>>.                     *)
(***************************************************************************)
EXTENDS Integers, Sequences, FiniteSets, TLC

VARIABLES products, catalog, now, req, res

\* the single-page app in the browser: localStorage, the state of AuthProvider
\* and CartProvider, React's queues, the router and the requests in flight
VARIABLES strict, ls, user, authLoading, cart, pending, effects, flush,
          location, screen, inflight, callers, reloading, lastOp, log, lastResp, ops

backendVars == <<products, catalog, now, req, res>>

appVars == <<strict, ls, user, authLoading, cart, pending, effects, flush,
             location, screen, inflight, callers, reloading, lastOp, log, lastResp,
             ops>>

\* the page on screen, with the state of its component, and the requests it
\* is waiting for
VARIABLES view, fetches

pageVars == <<view, fetches>>

vars == <<backendVars, appVars, pageVars>>

(* ---------------------------------------------------------------- bounds *)
MaxProducts == 3
MaxClock == 2

(* ------------------------------------------------------------- JS values *)
Undefined == <<"undefined">>
None == [route |-> "none"]

Num(n) == [nan |-> FALSE, inf |-> FALSE, v |-> n]
NaN == [nan |-> TRUE, inf |-> FALSE, v |-> 0]
Infinity == [nan |-> FALSE, inf |-> TRUE, v |-> 0]
IsInt(x) == ~x.nan /\ ~x.inf

\* if (x) on a query-string parameter: undefined and "" are falsy
Truthy(s) == s # Undefined /\ s # <<>>

Digits == {"0", "1", "2", "3", "4", "5", "6", "7", "8", "9"}
DigitVal(c) ==
  CASE c = "0" -> 0 [] c = "1" -> 1 [] c = "2" -> 2 [] c = "3" -> 3
    [] c = "4" -> 4 [] c = "5" -> 5 [] c = "6" -> 6 [] c = "7" -> 7
    [] c = "8" -> 8 [] c = "9" -> 9

RECURSIVE DigitPrefix(_, _, _)
\* value of the longest run of digits of s from position i, acc so far;
\* -1 when there is no digit at position i
DigitPrefix(s, i, acc) ==
  IF i > Len(s) \/ s[i] \notin Digits
  THEN acc
  ELSE DigitPrefix(s, i + 1, (IF acc < 0 THEN 0 ELSE acc) * 10 + DigitVal(s[i]))

\* parseInt(s) / parseFloat(s) on strings over sign, digits and other letters:
\* optional sign, then the longest digit prefix; NaN when there is none
ParseNumber(s) ==
  LET neg == Len(s) > 0 /\ s[1] = "-"
      first == IF neg THEN 2 ELSE 1
      n == DigitPrefix(s, first, -1)
  IN IF n < 0 THEN NaN ELSE Num(IF neg THEN 0 - n ELSE n)

ParseInt(s) == ParseNumber(s)
ParseFloat(s) == ParseNumber(s)

JsSub(a, b) == IF a.nan \/ b.nan THEN NaN ELSE Num(a.v - b.v)
JsAdd(a, b) == IF a.nan \/ b.nan THEN NaN ELSE Num(a.v + b.v)
JsMul(a, b) == IF a.nan \/ b.nan THEN NaN ELSE Num(a.v * b.v)

\* Math.ceil(n / d) for an integer n >= 0 and a JS number d
CeilDiv(n, d) ==
  IF d.nan THEN NaN
  ELSE IF d.v = 0 THEN (IF n = 0 THEN NaN ELSE Infinity)
  ELSE IF d.v > 0 THEN Num((n + d.v - 1) \div d.v)
  ELSE Num(0 - (n \div (0 - d.v)))

\* price >= bound, price <= bound: every comparison with NaN is false
JsGe(price, bound) == ~bound.nan /\ price >= bound.v
JsLe(price, bound) == ~bound.nan /\ price <= bound.v

\* String.prototype.toLowerCase on the modelled alphabet
LowerChar(c) == CASE c = "A" -> "a" [] c = "B" -> "b" [] OTHER -> c
ToLowerCase(s) == [i \in 1..Len(s) |-> LowerChar(s[i])]

\* String.prototype.includes
Includes(s, t) ==
  \E i \in 0..(Len(s) - Len(t)) : \A j \in 1..Len(t) : s[i + j] = t[j]

\* Array.prototype.slice(start, end)
RelIndex(x, len) ==
  LET k == IF x.nan THEN 0 ELSE x.v
  IN IF k < 0 THEN (IF len + k < 0 THEN 0 ELSE len + k)
     ELSE (IF k > len THEN len ELSE k)

Slice(arr, start, end) ==
  LET k == RelIndex(start, Len(arr))
      f == RelIndex(end, Len(arr))
  IN IF f <= k THEN <<>> ELSE [i \in 1..(f - k) |-> arr[k + i]]

\* the comparators of products.sort; > 0 means a goes after b
Compare(sort, a, b) ==
  CASE sort = "price_asc" -> a.price - b.price
    [] sort = "price_desc" -> b.price - a.price
    [] sort = "rating" -> b.rating - a.rating

\* Array.prototype.sort is stable: x goes after every element that does not
\* compare greater than it
InsertPos(sorted, x, sort) ==
  LET after == {j \in 1..Len(sorted) : Compare(sort, sorted[j], x) > 0}
  IN IF after = {} THEN Len(sorted) + 1
     ELSE CHOOSE j \in after : \A k \in after : j <= k

Insert(sorted, x, sort) ==
  LET p == InsertPos(sorted, x, sort)
  IN [i \in 1..(Len(sorted) + 1) |->
        IF i < p THEN sorted[i] ELSE IF i = p THEN x ELSE sorted[i - 1]]

RECURSIVE SortFrom(_, _, _, _)
SortFrom(arr, i, acc, sort) ==
  IF i > Len(arr) THEN acc
  ELSE SortFrom(arr, i + 1, Insert(acc, arr[i], sort), sort)

Sort(arr, sort) == SortFrom(arr, 1, <<>>, sort)

SortKeys == {"price_asc", "price_desc", "rating"}

(* ------------------------------------------------------------ getProducts *)
\* the four filters, each applied only when its parameter is truthy
FilterCategory(arr, q) ==
  IF q.category # "" /\ q.category # "undefined"
  THEN SelectSeq(arr, LAMBDA p : p.categoryId = q.category)
  ELSE arr

\* a search that keeps only the first product that matches (find for filter)
FilterSearchFirst(arr, q) ==
  IF Truthy(q.search)
  THEN LET searchLower == ToLowerCase(q.search)
           found == SelectSeq(arr, LAMBDA p :
                      \/ Includes(ToLowerCase(p.name), searchLower)
                      \/ Includes(ToLowerCase(p.description), searchLower))
       IN IF found = <<>> THEN <<>> ELSE <<found[1]>>
  ELSE arr

FilterSearch(arr, q) ==
  IF Truthy(q.search)
  THEN LET searchLower == ToLowerCase(q.search)
       IN SelectSeq(arr, LAMBDA p :
             \/ Includes(ToLowerCase(p.name), searchLower)
             \/ Includes(ToLowerCase(p.description), searchLower))
  ELSE arr

FilterMinPrice(arr, q) ==
  IF Truthy(q.minPrice)
  THEN SelectSeq(arr, LAMBDA p : JsGe(p.price, ParseFloat(q.minPrice)))
  ELSE arr

\* a maxPrice filter that leaves out the products priced at the bound
FilterMaxPriceStrict(arr, q) ==
  IF Truthy(q.maxPrice)
  THEN SelectSeq(arr, LAMBDA p : LET hi == ParseFloat(q.maxPrice)
                                 IN ~hi.nan /\ p.price < hi.v)
  ELSE arr

FilterMaxPrice(arr, q) ==
  IF Truthy(q.maxPrice)
  THEN SelectSeq(arr, LAMBDA p : JsLe(p.price, ParseFloat(q.maxPrice)))
  ELSE arr

Filtered(arr, q) ==
  FilterMaxPrice(FilterMinPrice(FilterSearch(FilterCategory(arr, q), q), q), q)

\* Array.prototype.filter returns a new array; without any filter the local
\* variable still refers to the array of the store
Aliased(q) ==
  /\ ~(q.category # "" /\ q.category # "undefined")
  /\ ~Truthy(q.search)
  /\ ~Truthy(q.minPrice)
  /\ ~Truthy(q.maxPrice)

\* the array after step 3 (filters and sort), before slicing
Sorted(arr, q) ==
  IF q.sort \in SortKeys THEN Sort(Filtered(arr, q), q.sort) ELSE Filtered(arr, q)

\* const { page = 1, limit = 20 } = req.query, then parseInt of each
PageOf(q) == IF q.page = Undefined THEN Num(1) ELSE ParseInt(q.page)
LimitOf(q) == IF q.limit = Undefined THEN Num(20) ELSE ParseInt(q.limit)

\* a start index that takes page as zero-based
StartIndexZeroBased(page, limit) == JsMul(page, limit)

\* const startIndex = (parseInt(page) - 1) * parseInt(limit)
StartIndex(page, limit) == JsMul(JsSub(page, Num(1)), limit)

\* an end index that includes the element at startIndex + limit
EndIndexInclusive(startIndex, limit) == JsAdd(JsAdd(startIndex, limit), Num(1))

\* const endIndex = startIndex + parseInt(limit)
EndIndex(startIndex, limit) == JsAdd(startIndex, limit)

\* one call of getProducts on the store array db: the store array afterwards
\* and the body passed to res.json
Evaluate(db, q) ==
  LET sorted == Sorted(db, q)
      page == PageOf(q)
      limit == LimitOf(q)
      startIndex == StartIndex(page, limit)
      endIndex == EndIndex(startIndex, limit)
      paginatedProducts == Slice(sorted, startIndex, endIndex)
  IN [db |-> IF Aliased(q) /\ q.sort \in SortKeys THEN sorted ELSE db,
      body |-> [success |-> TRUE,
                products |-> paginatedProducts,
                page |-> page,
                limit |-> limit,
                total |-> Len(sorted),
                pages |-> CeilDiv(Len(sorted), limit)]]

(* ------------------------------------------------------------- the inputs *)
\* req.query of GET /api/products: every combination of the four filters
\* (first and second page), every sort with and without a filter, and every
\* page and limit with and without a sort
Query(category, search, minPrice, maxPrice, sort, page, limit) ==
  [category |-> category, search |-> search, minPrice |-> minPrice,
   maxPrice |-> maxPrice, sort |-> sort, page |-> page, limit |-> limit]

Categories == {"undefined", "x"}
Searches == {Undefined, <<"A">>}
MinPrices == {Undefined, <<"2">>, <<"x">>}
MaxPrices == {Undefined, <<"2", "x">>}
Sorts == {"undefined", "newest", "price_asc", "price_desc", "rating", "bogus"}
Pages == {<<"-", "1">>, <<"0">>, <<"1">>, <<"2">>, <<"3">>}
Limits == {<<"-", "1">>, <<"0">>, <<"1">>, <<"2">>}

FilterQueries ==
  {Query(c, s, lo, hi, "undefined", pl[1], pl[2]) :
     c \in Categories, s \in Searches, lo \in MinPrices, hi \in MaxPrices,
     pl \in {<<Undefined, Undefined>>, <<(<<"2">>), (<<"1">>)>>}}

SortQueries ==
  {Query("undefined", Undefined, lo, Undefined, s, Undefined, Undefined) :
     lo \in {Undefined, <<"2">>}, s \in Sorts}

PageQueries ==
  {Query("undefined", Undefined, Undefined, Undefined, s, p, l) :
     s \in {"undefined", "price_desc"}, p \in Pages, l \in Limits}

\* price bounds that conflict (minPrice above maxPrice)
ConflictQueries ==
  {Query("undefined", Undefined, <<"2">>, <<"1">>, s, Undefined, l) :
     s \in {"undefined", "price_asc"}, l \in {Undefined, <<"0">>, <<"2">>}}

Queries == FilterQueries \cup SortQueries \cup PageQueries \cup ConflictQueries

\* the sample data the store is loaded with: products created before the
\* server started, two of them at the same time
MockData ==
  { [id |-> 101, name |-> <<"A", "b">>, description |-> <<"b">>,
     price |-> 1, categoryId |-> "x", rating |-> 4, createdAt |-> 0],
    [id |-> 102, name |-> <<"b">>, description |-> <<"B", "a">>,
     price |-> 3, categoryId |-> "y", rating |-> 2, createdAt |-> 0],
    [id |-> 103, name |-> <<"b", "b">>, description |-> <<>>,
     price |-> 1, categoryId |-> "x", rating |-> 2, createdAt |-> 1] }

\* the sequences of at most n distinct elements of S
SeqsNoDup(S, n) ==
  {s \in UNION {[1..k -> S] : k \in 0..n} :
     \A i, j \in 1..Len(s) : i # j => s[i] # s[j]}

(* ---------------------------------------------------------------- actions *)
\* no browser has loaded the app
AppOff ==
  /\ strict = FALSE
  /\ ls = [token |-> <<>>, user |-> <<>>, cart |-> <<>>]
  /\ user = <<>> /\ authLoading = TRUE /\ cart = <<>>
  /\ pending = <<>> /\ effects = <<>> /\ flush = FALSE
  /\ location = "/products" /\ screen = "none"
  /\ inflight = <<>> /\ callers = <<>> /\ reloading = FALSE
  /\ lastOp = [name |-> "none"] /\ log = <<>>
  /\ lastResp = [n |-> 0] /\ ops = 0

\* no page component is modelled
PageOff == view = [name |-> "none"] /\ fetches = <<>>

\* the store holds the sample data in the order of creation, as
\* db.createProduct pushes every later product at the end
Init ==
  /\ products \in {s \in SeqsNoDup(MockData, Cardinality(MockData)) :
                     \A i, j \in 1..Len(s) : i < j => s[i].createdAt <= s[j].createdAt}
  /\ catalog = products
  /\ now = 1
  /\ req = None
  /\ res = None
  /\ AppOff /\ PageOff

\* time passes between requests
Tick ==
  /\ now < MaxClock
  /\ now' = now + 1
  /\ UNCHANGED <<products, catalog, req, res>>
  /\ UNCHANGED <<appVars, pageVars>>

\* POST /api/products by a seller
CreateProduct ==
  /\ Len(products) < MaxProducts
  /\ \E price \in {<<"2">>}, categoryId \in {"x"} :
       LET product == [id |-> now, name |-> <<"a">>, description |-> <<"B">>,
                       price |-> ParseFloat(price).v, categoryId |-> categoryId,
                       rating |-> 0, createdAt |-> now]
       IN /\ products' = Append(products, product)
          /\ catalog' = Append(catalog, product)
          /\ req' = [route |-> "POST /api/products",
                     body |-> [price |-> price, categoryId |-> categoryId]]
          /\ res' = [success |-> TRUE, data |-> product]
  /\ UNCHANGED now
  /\ UNCHANGED <<appVars, pageVars>>

\* GET /api/products
GetProducts ==
  \E q \in Queries :
    LET r == Evaluate(products, q)
    IN /\ products' = r.db
       /\ req' = [route |-> "GET /api/products", query |-> q]
       /\ res' = r.body
       /\ UNCHANGED <<catalog, now>>
       /\ UNCHANGED <<appVars, pageVars>>

Next == Tick \/ CreateProduct \/ GetProducts

Spec == Init /\ [][Next]_vars

(* ----------------------------------------------------------------- claims *)
\* Number.prototype.toString for n >= 0, as a client writes page into the URL
DigitChar(d) ==
  CASE d = 0 -> "0" [] d = 1 -> "1" [] d = 2 -> "2" [] d = 3 -> "3"
    [] d = 4 -> "4" [] d = 5 -> "5" [] d = 6 -> "6" [] d = 7 -> "7"
    [] d = 8 -> "8" [] d = 9 -> "9"

RECURSIVE NumberToString(_)
NumberToString(n) ==
  IF n < 10 THEN <<DigitChar(n)>> ELSE Append(NumberToString(n \div 10), DigitChar(n % 10))

RECURSIVE Walk(_, _, _, _)
\* the items of pages p..last of query q, requested one after the other from
\* the store array db
Walk(db, q, p, last) ==
  IF p > last THEN <<>>
  ELSE LET r == Evaluate(db, [q EXCEPT !.page = NumberToString(p)])
       IN r.body.products \o Walk(r.db, q, p + 1, last)

Called == req.route = "GET /api/products"
ValidPage == Called /\ IsInt(PageOf(req.query)) /\ PageOf(req.query).v >= 1
ValidLimit == Called /\ IsInt(LimitOf(req.query)) /\ LimitOf(req.query).v >= 1
NoFilter(q) ==
  /\ q.category = "undefined" /\ q.search = Undefined
  /\ q.minPrice = Undefined /\ q.maxPrice = Undefined

\* the filters of the query descriptor, as a predicate on one product
Matches(p, q) ==
  /\ q.category # "undefined" => p.categoryId = q.category
  /\ q.search # Undefined =>
       \E field \in {p.name, p.description} :
         \E i \in 0..Len(field) : \E n \in 0..Len(field) :
           /\ i + n <= Len(field)
           /\ n = Len(q.search)
           /\ \A j \in 1..n : LowerChar(field[i + j]) = LowerChar(q.search[j])
  /\ q.minPrice # Undefined =>
       (~ParseFloat(q.minPrice).nan /\ p.price >= ParseFloat(q.minPrice).v)
  /\ q.maxPrice # Undefined =>
       (~ParseFloat(q.maxPrice).nan /\ p.price <= ParseFloat(q.maxPrice).v)

\* the key a sort orders by, larger first when descending
KeyOf(p, sort) ==
  CASE sort \in {"undefined", "newest"} -> p.createdAt
    [] sort = "price_asc" -> 0 - p.price
    [] sort = "price_desc" -> p.price
    [] sort = "rating" -> p.rating

\* items is ordered by the key of the sort
Ordered(items, sort) ==
  \A i, j \in 1..Len(items) : i < j => KeyOf(items[i], sort) >= KeyOf(items[j], sort)

\* two items of equal key are in the order they have in the catalog cat
TiesInOrder(items, sort, cat) ==
  \A i, j \in 1..Len(items) :
    (i < j /\ KeyOf(items[i], sort) = KeyOf(items[j], sort) /\ items[i] # items[j])
      => \E a, b \in 1..Len(cat) : a < b /\ cat[a] = items[i] /\ cat[b] = items[j]

\* C1: getProducts never mutates the catalog: the array held by the store
\* contains the same products in the same order after every call.
C1_CatalogNotMutated == products = catalog

\* C2: every invocation is independent: as long as no product is created, a
\* query returns the same page whatever queries were evaluated meanwhile.
C2_Independent ==
  [][catalog' = catalog =>
       \A q \in SortQueries :
         Evaluate(products', q).body = Evaluate(products, q).body]_vars

\* C3: for pageSize >= 1, the items of pages 1..totalPages, requested in
\* turn and concatenated, are exactly the filtered and sorted sequence.
C3_PagesPartition ==
  ValidLimit => Walk(products, req.query, 1, res.pages.v) = Sorted(products, req.query)

C3_Witness ==
  /\ ValidLimit
  /\ req.query.sort = "price_desc" /\ NoFilter(req.query)
  /\ res.pages.v >= 2 /\ res.total = 3 /\ LimitOf(req.query).v = 2
  /\ \E i \in 1..2 : catalog[i].price < catalog[i + 1].price

\* C4: every returned product satisfies every active filter, and
\* totalMatching counts exactly the products of the catalog that do.
C4_FilterConjunction ==
  Called =>
    /\ \A i \in 1..Len(res.products) : Matches(res.products[i], req.query)
    /\ res.total = Cardinality({i \in 1..Len(products) : Matches(products[i], req.query)})

C4_Witness ==
  /\ Called
  /\ req.query.category = "x" /\ req.query.search = <<"A">>
  /\ req.query.minPrice = <<"2">> /\ req.query.maxPrice = <<"2", "x">>
  /\ Len(res.products) = 1 /\ res.total = 1 /\ Len(products) = 3

\* C5: for page >= 1 and pageSize >= 1, a page holds at most pageSize items,
\* a page beyond totalPages is empty, and the pages together hold
\* totalMatching items.
C5_PaginationBounds ==
  (ValidPage /\ ValidLimit) =>
    /\ Len(res.products) <= LimitOf(req.query).v
    /\ PageOf(req.query).v > res.pages.v =>
         /\ res.products = <<>>
         /\ res.total = Cardinality({i \in 1..Len(products) : Matches(products[i], req.query)})
         /\ res.pages.v * LimitOf(req.query).v >= res.total
         /\ res.pages.v > 0 => (res.pages.v - 1) * LimitOf(req.query).v < res.total
    /\ Len(Walk(products, req.query, 1, res.pages.v)) = res.total

C5_Witness ==
  /\ ValidPage /\ ValidLimit
  /\ PageOf(req.query).v = 3 /\ LimitOf(req.query).v = 2
  /\ res.total = 3 /\ res.pages = Num(2) /\ res.products = <<>>

\* the page size after clamping to a minimum of 1
ClampedPageSize == IF ValidLimit THEN LimitOf(req.query).v ELSE 1

\* C6: totalPages = ceil(totalMatching / pageSize), and totalPages is 0 if
\* and only if totalMatching is 0.
C6_TotalPages ==
  Called =>
    /\ IsInt(res.pages)
    /\ res.pages.v = (res.total + ClampedPageSize - 1) \div ClampedPageSize
    /\ res.pages.v = 0 <=> res.total = 0

\* C7: a page below 1 is treated as page 1: the items are those of page 1
\* and the echoed page is 1.
C7_PageClamped ==
  (Called /\ IsInt(PageOf(req.query)) /\ PageOf(req.query).v < 1) =>
    /\ res.products = Evaluate(products, [req.query EXCEPT !.page = <<"1">>]).body.products
    /\ res.page = Num(1)

\* C8: a pageSize below 1 is treated as pageSize 1: the result is that of
\* pageSize 1, with totalPages = totalMatching.
C8_PageSizeClamped ==
  (Called /\ IsInt(LimitOf(req.query)) /\ LimitOf(req.query).v < 1) =>
    /\ res = Evaluate(products, [req.query EXCEPT !.limit = <<"1">>]).body
    /\ res.limit = Num(1)
    /\ Len(res.products) <= 1
    /\ res.pages = Num(res.total)

\* C9: with no sort or sort = newest the products come newest first, and
\* products created at the same time keep their catalog order.
C9_NewestFirst ==
  (Called /\ req.query.sort \in {"undefined", "newest"}) =>
    /\ Ordered(res.products, req.query.sort)
    /\ TiesInOrder(res.products, req.query.sort, catalog)

\* C10: with a price or rating sort the products are ordered by that key in
\* that direction, and products of equal key keep their catalog order,
\* whatever was queried before.
C10_StableSort ==
  (Called /\ req.query.sort \in SortKeys) =>
    /\ Ordered(res.products, req.query.sort)
    /\ TiesInOrder(res.products, req.query.sort, catalog)
    /\ res.total = Len(Filtered(catalog, req.query))

\* both price bounds are supplied and parse to numbers, minPrice above maxPrice
BoundsConflict(q) ==
  /\ Truthy(q.minPrice) /\ Truthy(q.maxPrice)
  /\ IsInt(ParseFloat(q.minPrice)) /\ IsInt(ParseFloat(q.maxPrice))
  /\ ParseFloat(q.minPrice).v > ParseFloat(q.maxPrice).v

\* C11: with minPrice > maxPrice the call raises no error and returns an
\* empty page: no items, totalMatching = 0 and totalPages = 0.
C11_ConflictingBoundsEmpty ==
  (Called /\ BoundsConflict(req.query)) =>
    /\ res.success
    /\ res.products = <<>>
    /\ res.total = 0
    /\ res.pages = Num(0)

\* C12: a minPrice or maxPrice that cannot be parsed as a number is treated
\* as not supplied: the result is that of the query without that bound.
C12_MalformedBoundIgnored ==
  Called =>
    /\ (Truthy(req.query.minPrice) /\ ParseFloat(req.query.minPrice).nan) =>
         res = Evaluate(products, [req.query EXCEPT !.minPrice = Undefined]).body
    /\ (Truthy(req.query.maxPrice) /\ ParseFloat(req.query.maxPrice).nan) =>
         res = Evaluate(products, [req.query EXCEPT !.maxPrice = Undefined]).body

\* the four filters by number, and their application in a given order
ApplyFilter(k, arr, q) ==
  CASE k = 1 -> FilterCategory(arr, q)
    [] k = 2 -> FilterSearch(arr, q)
    [] k = 3 -> FilterMinPrice(arr, q)
    [] k = 4 -> FilterMaxPrice(arr, q)

RECURSIVE ApplyInOrder(_, _, _)
ApplyInOrder(order, arr, q) ==
  IF order = <<>> THEN arr
  ELSE ApplyInOrder(Tail(order), ApplyFilter(Head(order), arr, q), q)

FilterOrders == {o \in [1..4 -> 1..4] : \A i, j \in 1..4 : i # j => o[i] # o[j]}

\* C13: the filters commute: applied in any order they give the same
\* sequence, hence the same items and the same totalMatching.
C13_FiltersCommute ==
  Called =>
    \A o \in FilterOrders :
      LET f == ApplyInOrder(o, products, req.query)
      IN /\ f = Filtered(products, req.query)
         /\ res.total = Len(f)
         /\ req.query.sort \notin SortKeys =>
              res.products = Slice(f, StartIndex(res.page, res.limit),
                                   EndIndex(StartIndex(res.page, res.limit), res.limit))

C13_Witness ==
  /\ Called
  /\ req.query.category = "x" /\ req.query.search = <<"A">>
  /\ req.query.maxPrice = <<"2", "x">> /\ req.query.minPrice = Undefined
  /\ Len(products) = 3 /\ res.total = 2
  /\ \E i \in 1..3 : products[i].categoryId # "x"

(* ------------------------------------------------------------ the frontend *)
MaxOps == 2
MaxInflight == 2
MaxQuantity == 3

Absent == <<>>
Some(x) == <<x>>

\* the products a page shows
FrontProducts ==
  { [id |-> 1, price |-> 2, stock |-> 2], [id |-> 2, price |-> 0, stock |-> 1] }

\* a cart entry as addToCart builds it
NewItem(product, quantity) ==
  [product |-> Some(product), quantity |-> quantity, price |-> Some(product.price)]

\* a cart entry as the backend stores it: no product and no price
BackendItem(quantity) == [product |-> Absent, quantity |-> quantity, price |-> Absent]

\* item.product?.id
ProductIdOf(item) ==
  IF item.product = Absent THEN Absent ELSE Some(item.product[1].id)

\* JSON.stringify into localStorage and JSON.parse out of it: a stored string
\* is the value it parses to, or a string that does not parse
JsonStringify(value) == [valid |-> TRUE, value |-> value]
Corrupt == [valid |-> FALSE, value |-> <<>>]

\* state updates waiting for the next render
Update(op, id, quantity, item, value) ==
  [op |-> op, id |-> id, quantity |-> quantity, item |-> item, value |-> value]
AppendUpdate(item) == Update("append", 0, 0, item, <<>>)
MapUpdate(id, quantity) == Update("map", id, quantity, BackendItem(0), <<>>)
FilterUpdate(id) == Update("filter", id, 0, BackendItem(0), <<>>)
SetCartUpdate(value) == Update("set", 0, 0, BackendItem(0), value)
SetUserUpdate(value) == Update("user", 0, 0, BackendItem(0), value)
SetLoadingUpdate(value) == Update("loading", 0, 0, BackendItem(0), value)

CartOps == {"append", "map", "filter", "set"}

\* updater functions that do not look at the product id of an entry
ApplyCartUpdateEveryEntry(prev, u) ==
  CASE u.op = "append" -> Append(prev, u.item)
    [] u.op = "map" ->
         [i \in 1..Len(prev) |-> [prev[i] EXCEPT !.quantity = u.quantity]]
    [] u.op = "filter" -> <<>>
    [] u.op = "set" -> u.value
    [] OTHER -> prev

\* the updater functions passed to setCart
ApplyCartUpdate(prev, u) ==
  CASE u.op = "append" -> Append(prev, u.item)
    [] u.op = "map" ->
         [i \in 1..Len(prev) |->
            IF ProductIdOf(prev[i]) = Some(u.id)
            THEN [prev[i] EXCEPT !.quantity = u.quantity]
            ELSE prev[i]]
    [] u.op = "filter" ->
         SelectSeq(prev, LAMBDA item : ProductIdOf(item) # Some(u.id))
    [] u.op = "set" -> u.value
    [] OTHER -> prev

RECURSIVE ApplyUpdates(_, _)
\* React applies the queued updates in the order they were queued
ApplyUpdates(state, updates) ==
  IF updates = <<>> THEN state
  ELSE LET u == Head(updates)
           next == CASE u.op \in CartOps ->
                          [state EXCEPT !.cart = ApplyCartUpdate(state.cart, u)]
                     [] u.op = "user" -> [state EXCEPT !.user = u.value]
                     [] u.op = "loading" -> [state EXCEPT !.authLoading = u.value]
       IN ApplyUpdates(next, Tail(updates))

\* requests of services/api.js
Request(kind, id, quantity) == [kind |-> kind, id |-> id, quantity |-> quantity]

\* what one call of a CartProvider function does before it first waits: the
\* setCart calls, the requests and the order of both
Effect(updates, requests, events) ==
  [updates |-> updates, requests |-> requests, events |-> events]

\* a removeFromCart that asks the backend before it touches the cart
RemoveFromCartRequestFirst(productId, isAuthenticated) ==
  Effect(<<FilterUpdate(productId)>>,
         <<Request("remove", productId, 0)>>,
         <<"DELETE /cart/:id", "setCart">>)

RemoveFromCart(productId, isAuthenticated) ==
  Effect(<<FilterUpdate(productId)>>,
         IF isAuthenticated THEN <<Request("remove", productId, 0)>> ELSE <<>>,
         <<"setCart">> \o (IF isAuthenticated THEN <<"DELETE /cart/:id">> ELSE <<>>))

\* an updateQuantity that writes a quantity of 0 or less into the entry
UpdateQuantityNoRemove(productId, quantity, isAuthenticated) ==
  Effect(<<MapUpdate(productId, quantity)>>,
         IF isAuthenticated THEN <<Request("update", productId, quantity)>> ELSE <<>>,
         <<"setCart">> \o (IF isAuthenticated THEN <<"PUT /cart/:id">> ELSE <<>>))

UpdateQuantity(productId, quantity, isAuthenticated) ==
  IF quantity <= 0
  THEN RemoveFromCart(productId, isAuthenticated)
  ELSE Effect(<<MapUpdate(productId, quantity)>>,
              IF isAuthenticated THEN <<Request("update", productId, quantity)>> ELSE <<>>,
              <<"setCart">> \o (IF isAuthenticated THEN <<"PUT /cart/:id">> ELSE <<>>))

\* an addToCart that posts the added quantity again for a product in the cart
AddToCartPostsAgain(rendered, product, quantity, isAuthenticated) ==
  LET found == SelectSeq(rendered, LAMBDA item : ProductIdOf(item) = Some(product.id))
  IN Effect(<<IF found # <<>> THEN MapUpdate(product.id, found[1].quantity + quantity)
              ELSE AppendUpdate(NewItem(product, quantity))>>,
            IF isAuthenticated THEN <<Request("add", product.id, quantity)>> ELSE <<>>,
            <<"setCart">> \o (IF isAuthenticated THEN <<"POST /cart">> ELSE <<>>))

\* addToCart reads the cart of the render it was created in
AddToCart(rendered, product, quantity, isAuthenticated) ==
  LET found == SelectSeq(rendered, LAMBDA item : ProductIdOf(item) = Some(product.id))
  IN IF found # <<>>
     THEN UpdateQuantity(product.id, found[1].quantity + quantity, isAuthenticated)
     ELSE Effect(<<AppendUpdate(NewItem(product, quantity))>>,
                 IF isAuthenticated THEN <<Request("add", product.id, quantity)>> ELSE <<>>,
                 <<"setCart">> \o (IF isAuthenticated THEN <<"POST /cart">> ELSE <<>>))

ClearCart(isAuthenticated) ==
  Effect(<<SetCartUpdate(<<>>)>>,
         IF isAuthenticated THEN <<Request("clear", 0, 0)>> ELSE <<>>,
         <<"setCart">> \o (IF isAuthenticated THEN <<"DELETE /cart">> ELSE <<>>))

\* item.product?.price || item.price || 0: 0 and undefined are falsy
PriceOf(item) ==
  LET productPrice == IF item.product = Absent THEN 0 ELSE item.product[1].price
      itemPrice == IF item.price = Absent THEN 0 ELSE item.price[1]
  IN IF productPrice # 0 THEN productPrice ELSE IF itemPrice # 0 THEN itemPrice ELSE 0

RECURSIVE Reduce(_, _, _)
\* cart.reduce((total, item) => total + price * item.quantity, 0)
Reduce(items, i, total) ==
  IF i > Len(items) THEN total
  ELSE Reduce(items, i + 1, total + PriceOf(items[i]) * items[i].quantity)

\* a total that forgets the quantities
GetCartTotalNoQuantity(items) ==
  LET Add[i \in 0..Len(items)] == IF i = 0 THEN 0 ELSE Add[i - 1] + PriceOf(items[i])
  IN Add[Len(items)]

GetCartTotal(items) == Reduce(items, 1, 0)

\* a ProtectedRoute that only waits for the auth check
ProtectedRouteNoAuthCheck(loading, isAuthenticated, children) ==
  IF loading THEN "Loading" ELSE children

\* components/ProtectedRoute.jsx
ProtectedRoute(loading, isAuthenticated, children) ==
  IF loading THEN "Loading"
  ELSE IF ~isAuthenticated THEN "Navigate /login"
  ELSE children

\* /products/:id for the products on sale
DetailPaths == {"/products/1", "/products/2"}
PathOf(id) == IF id = 1 THEN "/products/1" ELSE "/products/2"
IdOf(path) == IF path = "/products/1" THEN 1 ELSE 2

\* the <Routes> of App.jsx: where the router ends up and what it shows
Routes(path, loading, isAuthenticated) ==
  LET element == CASE path = "/cart" -> ProtectedRoute(loading, isAuthenticated, "Cart")
                   [] path = "/login" -> "Login"
                   [] path = "/products" -> "Products"
                   [] path \in DetailPaths -> "ProductDetail"
                   [] OTHER -> "Navigate /products"
  IN CASE element = "Navigate /login" -> [location |-> "/login", screen |-> "Login"]
       [] element = "Navigate /products" -> [location |-> "/products", screen |-> "Products"]
       [] OTHER -> [location |-> path, screen |-> element]

\* the effects of CartProvider and AuthProvider, children first; StrictMode
\* runs the effects of a mount a second time in a development build
MountEffects == <<"cart.load", "cart.save", "cart.sync", "auth.check">>
EffectsOnMount(strictMode) ==
  IF strictMode THEN MountEffects \o MountEffects ELSE MountEffects

\* what localStorage may hold from earlier visits
StoredCarts ==
  { Absent, Some(Corrupt), Some(JsonStringify(<<>>)),
    Some(JsonStringify(<<NewItem([id |-> 1, price |-> 2, stock |-> 2], 1)>>)) }

\* response.data?.cart?.items of GET /cart
SyncCarts ==
  { Absent, Some(<<>>), Some(<<BackendItem(1)>>),
    Some(<<NewItem([id |-> 1, price |-> 2, stock |-> 2], 2)>>) }

StoredUsers == {Absent, Some(JsonStringify([email |-> "u"])), Some(Corrupt)}

Paths == {"/products", "/cart", "/login"}
\* 0 stands for an error without a response (error.response is undefined)
Statuses == {200, 401, 500, 0}
TheUser == [email |-> "u"]

IsAuthenticated == user # Absent
Idle == effects = <<>> /\ ~flush /\ ~reloading

\* the app right after the first render of a page load at path
Mounted(path) ==
  /\ user' = Absent /\ authLoading' = TRUE /\ cart' = <<>>
  /\ pending' = <<>>
  /\ effects' = EffectsOnMount(strict)
  /\ flush' = FALSE
  /\ location' = Routes(path, TRUE, FALSE).location
  /\ screen' = Routes(path, TRUE, FALSE).screen
  /\ inflight' = <<>> /\ callers' = <<>> /\ reloading' = FALSE
  /\ lastOp' = [name |-> "mount", stored |-> ls.cart] /\ log' = <<>>

\* the backend is not part of the frontend's specification
BackendOff ==
  products = <<>> /\ catalog = <<>> /\ now = 0 /\ req = None /\ res = None

AppInit ==
  /\ BackendOff /\ PageOff
  /\ strict \in BOOLEAN
  /\ ls \in [token : {Absent, Some("jwt")}, user : StoredUsers, cart : StoredCarts]
  /\ (ls.token = Absent) = (ls.user = Absent)
  /\ \E path \in {"/products", "/cart"} :
       /\ location = Routes(path, TRUE, FALSE).location
       /\ screen = Routes(path, TRUE, FALSE).screen
  /\ user = Absent /\ authLoading = TRUE /\ cart = <<>>
  /\ pending = <<>> /\ effects = EffectsOnMount(strict) /\ flush = FALSE
  /\ inflight = <<>> /\ callers = <<>> /\ reloading = FALSE
  /\ lastOp = [name |-> "mount", stored |-> ls.cart] /\ log = <<>>
  /\ lastResp = [n |-> 0] /\ ops = 0

\* the user reloads the page, or the redirect of the 401 interceptor loads it
ReloadApp ==
  /\ effects = <<>> /\ ~flush
  /\ reloading \/ ops < MaxOps
  /\ ops' = IF reloading THEN ops ELSE ops + 1
  /\ Mounted(location)
  /\ UNCHANGED <<strict, ls, lastResp>>
  /\ UNCHANGED backendVars

Reload == ReloadApp /\ UNCHANGED pageVars

\* useEffect(() => { ...localStorage.getItem('cart')... }, []); React renders
\* the state an effect sets before it handles the next event
CartLoadEffect ==
  /\ effects # <<>> /\ Head(effects) = "cart.load"
  /\ effects' = Tail(effects)
  /\ IF ls.cart = Absent
     THEN UNCHANGED <<pending, ls, flush>>
     ELSE IF ls.cart[1].valid
          THEN /\ pending' = Append(pending, SetCartUpdate(ls.cart[1].value))
               /\ flush' = TRUE
               /\ UNCHANGED ls
          ELSE /\ ls' = [ls EXCEPT !.cart = Absent]
               /\ UNCHANGED <<pending, flush>>
  /\ UNCHANGED <<strict, user, authLoading, cart, location, screen,
                 inflight, callers, reloading, lastOp, log, lastResp, ops>>
  /\ UNCHANGED <<backendVars, pageVars>>

\* useEffect(() => { localStorage.setItem('cart', ...) }, [cart])
CartSaveEffect ==
  /\ effects # <<>> /\ Head(effects) = "cart.save"
  /\ effects' = Tail(effects)
  /\ ls' = [ls EXCEPT !.cart = Some(JsonStringify(cart))]
  /\ UNCHANGED <<strict, user, authLoading, cart, pending, flush, location,
                 screen, inflight, callers, reloading, lastOp, log, lastResp, ops>>
  /\ UNCHANGED <<backendVars, pageVars>>

\* useEffect(() => { if (isAuthenticated) syncCartWithBackend() }, [isAuthenticated])
CartSyncEffect ==
  /\ effects # <<>> /\ Head(effects) = "cart.sync"
  /\ effects' = Tail(effects)
  /\ inflight' = IF IsAuthenticated THEN Append(inflight, Request("get", 0, 0))
                 ELSE inflight
  /\ callers' = IF IsAuthenticated THEN Append(callers, "syncCartWithBackend")
                ELSE callers
  /\ UNCHANGED <<strict, ls, user, authLoading, cart, pending, flush, location,
                 screen, reloading, lastOp, log, lastResp, ops>>
  /\ UNCHANGED <<backendVars, pageVars>>

\* the effect of AuthProvider that reads token and user from localStorage
AuthCheckEffect ==
  /\ effects # <<>> /\ Head(effects) = "auth.check"
  /\ effects' = Tail(effects)
  /\ IF ls.token # Absent /\ ls.user # Absent
     THEN IF ls.user[1].valid
          THEN /\ pending' = pending \o <<SetUserUpdate(Some(ls.user[1].value)),
                                          SetLoadingUpdate(FALSE)>>
               /\ UNCHANGED ls
          ELSE /\ ls' = [ls EXCEPT !.token = Absent, !.user = Absent]
               /\ pending' = Append(pending, SetLoadingUpdate(FALSE))
     ELSE /\ pending' = Append(pending, SetLoadingUpdate(FALSE))
          /\ UNCHANGED ls
  /\ flush' = TRUE
  /\ UNCHANGED <<strict, user, authLoading, cart, location, screen,
                 inflight, callers, reloading, lastOp, log, lastResp, ops>>
  /\ UNCHANGED <<backendVars, pageVars>>

\* React renders: the queued updates become the state, the router picks the
\* page, and the effects whose dependencies changed are queued
RenderApp ==
  /\ effects = <<>> /\ ~reloading
  /\ pending # <<>> \/ flush
  /\ LET state == ApplyUpdates([cart |-> cart, user |-> user,
                                authLoading |-> authLoading], pending)
         cartChanged == \E i \in 1..Len(pending) : pending[i].op \in CartOps
         authChanged == (state.user = Absent) # (user = Absent)
         route == Routes(location, state.authLoading, state.user # Absent)
     IN /\ cart' = state.cart
        /\ user' = state.user
        /\ authLoading' = state.authLoading
        /\ location' = route.location
        /\ screen' = route.screen
        /\ effects' = (IF cartChanged THEN <<"cart.save">> ELSE <<>>)
                      \o (IF authChanged THEN <<"cart.sync">> ELSE <<>>)
  /\ pending' = <<>>
  /\ flush' = FALSE
  /\ UNCHANGED <<strict, ls, inflight, callers, reloading, lastOp, log, lastResp, ops>>
  /\ UNCHANGED backendVars

Render == RenderApp /\ UNCHANGED pageVars

\* a call of one of the CartProvider functions from an event handler
CartCall(name, id, quantity, effect) ==
  /\ Idle /\ ops < MaxOps
  /\ Len(inflight) + Len(effect.requests) <= MaxInflight
  /\ ops' = ops + 1
  /\ pending' = pending \o effect.updates
  /\ inflight' = inflight \o effect.requests
  /\ callers' = callers \o [k \in 1..Len(effect.requests) |-> name]
  /\ log' = effect.events
  /\ lastOp' = [name |-> name, id |-> id, quantity |-> quantity, before |-> cart,
                settled |-> (pending = <<>>), auth |-> IsAuthenticated]
  /\ flush' = TRUE
  /\ UNCHANGED <<strict, ls, user, authLoading, cart, effects, location, screen,
                 reloading, lastResp>>
  /\ UNCHANGED <<backendVars, pageVars>>

AddToCartCall ==
  \E product \in FrontProducts, quantity \in 1..2 :
    /\ \A i \in 1..Len(cart) : cart[i].quantity + quantity <= MaxQuantity
    /\ CartCall("addToCart", product.id, quantity,
                AddToCart(cart, product, quantity, IsAuthenticated))

UpdateQuantityCall ==
  \E product \in FrontProducts, quantity \in (0 - 1)..2 :
    CartCall("updateQuantity", product.id, quantity,
             UpdateQuantity(product.id, quantity, IsAuthenticated))

RemoveFromCartCall ==
  \E product \in FrontProducts :
    CartCall("removeFromCart", product.id, 0,
             RemoveFromCart(product.id, IsAuthenticated))

ClearCartCall == CartCall("clearCart", 0, 0, ClearCart(IsAuthenticated))

\* login of AuthProvider: POST /auth/login
Login ==
  /\ Idle /\ ops < MaxOps /\ ~IsAuthenticated
  /\ Len(inflight) < MaxInflight
  /\ ops' = ops + 1
  /\ inflight' = Append(inflight, Request("login", 0, 0))
  /\ callers' = Append(callers, "login")
  /\ lastOp' = [name |-> "login"]
  /\ UNCHANGED <<strict, ls, user, authLoading, cart, pending, effects, flush,
                 location, screen, reloading, log, lastResp>>
  /\ UNCHANGED <<backendVars, pageVars>>

\* logout of AuthProvider, from the button of the Navbar
Logout ==
  /\ Idle /\ ops < MaxOps /\ IsAuthenticated
  /\ ops' = ops + 1
  /\ ls' = [ls EXCEPT !.token = Absent, !.user = Absent]
  /\ pending' = Append(pending, SetUserUpdate(Absent))
  /\ flush' = TRUE
  /\ lastOp' = [name |-> "logout"]
  /\ UNCHANGED <<strict, user, authLoading, cart, effects, location, screen,
                 inflight, callers, reloading, log, lastResp>>
  /\ UNCHANGED <<backendVars, pageVars>>

\* the user follows a link or types an address
Navigate ==
  /\ Idle /\ ops < MaxOps
  /\ \E path \in Paths :
       /\ path # location
       /\ location' = path
       /\ lastOp' = [name |-> "navigate", to |-> path]
  /\ ops' = ops + 1
  /\ flush' = TRUE
  /\ UNCHANGED <<strict, ls, user, authLoading, cart, pending, effects, screen,
                 inflight, callers, reloading, log, lastResp>>
  /\ UNCHANGED <<backendVars, pageVars>>

\* what the promise of a cart function resolves to once its request r has
\* settled: the inner try/catch swallows a failed request, and updateQuantity
\* returns nothing after handing over to removeFromCart
Returns(fn, r, failed) ==
  CASE fn \notin {"addToCart", "updateQuantity", "removeFromCart", "clearCart"} -> Absent
    [] fn = "updateQuantity" /\ r.kind = "remove" -> Absent
    [] OTHER -> Some([success |-> TRUE])

\* an interceptor that logs out on every error
InterceptorAnyError(status, storage) ==
  [ls |-> [storage EXCEPT !.token = Absent, !.user = Absent],
   href |-> Some("/login"), rejected |-> TRUE]

\* the response interceptor of services/api.js, for a rejected response
Interceptor(status, storage) ==
  IF status = 401
  THEN [ls |-> [storage EXCEPT !.token = Absent, !.user = Absent],
        href |-> Some("/login"), rejected |-> TRUE]
  ELSE [ls |-> storage, href |-> Absent, rejected |-> TRUE]

\* a response arrives for one of the requests in flight and the code waiting
\* for it runs on
Response ==
  /\ Idle
  /\ \E i \in 1..Len(inflight), status \in Statuses, items \in SyncCarts :
       LET r == inflight[i]
           rest == SelectSeq([k \in 1..Len(inflight) |-> [at |-> k, r |-> inflight[k]]],
                             LAMBDA x : x.at # i)
           x == Interceptor(status, ls)
           storage == IF status = 200 THEN ls ELSE x.ls
       IN /\ inflight' = [k \in 1..Len(rest) |-> rest[k].r]
          /\ callers' = [k \in 1..Len(rest) |-> callers[rest[k].at]]
          /\ lastResp' = [n |-> 1 - lastResp.n, status |-> status, kind |-> r.kind,
                          rejected |-> (status # 200 /\ x.rejected),
                          hadToken |-> (ls.token # Absent /\ ls.user # Absent),
                          fn |-> callers[i],
                          result |-> Returns(callers[i], r, status # 200)]
          /\ reloading' = (status # 200 /\ x.href # Absent)
          /\ location' = IF status # 200 /\ x.href # Absent THEN x.href[1] ELSE location
          /\ IF status = 200 /\ r.kind = "login"
             THEN /\ ls' = [storage EXCEPT !.token = Some("jwt"),
                                          !.user = Some(JsonStringify(TheUser))]
                  /\ pending' = Append(pending, SetUserUpdate(Some(TheUser)))
             ELSE IF status = 200 /\ r.kind = "get" /\ items # Absent
             THEN /\ ls' = storage
                  /\ pending' = Append(pending, SetCartUpdate(items[1]))
             ELSE /\ ls' = storage
                  /\ UNCHANGED pending
  /\ UNCHANGED <<strict, user, authLoading, cart, effects, flush, screen,
                 lastOp, log, ops>>
  /\ UNCHANGED <<backendVars, pageVars>>

AppNext ==
  \/ Reload
  \/ CartLoadEffect \/ CartSaveEffect \/ CartSyncEffect \/ AuthCheckEffect
  \/ Render
  \/ AddToCartCall \/ UpdateQuantityCall \/ RemoveFromCartCall \/ ClearCartCall
  \/ Login \/ Logout \/ Navigate
  \/ Response

AppSpec == AppInit /\ [][AppNext]_vars

(* ------------------------------------------------- claims on the frontend *)
\* nothing is queued: every effect has run and every update is rendered
Settled == Idle /\ pending = <<>>

\* C14: when localStorage 'cart' holds the items C at the mount of a page load
\* and the user is not authenticated, then once the mount effects have run
\* and the state has settled the cart in memory is C and localStorage 'cart'
\* is C again, with and without the second effect run of StrictMode
C14_CartSurvivesRefresh ==
  ( /\ lastOp.name = "mount" /\ Settled /\ ~authLoading /\ ~IsAuthenticated
    /\ lastOp.stored # Absent /\ lastOp.stored[1].valid ) =>
      /\ cart = lastOp.stored[1].value
      /\ ls.cart = Some(JsonStringify(lastOp.stored[1].value))


\* C15: the Cart page is on screen only when the auth check has finished and
\* the user is authenticated; whoever is not authenticated never stays on
\* /cart: after navigating there the router is at /login showing Login
C15_CartRouteProtected ==
  /\ screen = "Cart" => (~authLoading /\ IsAuthenticated)
  /\ (Settled /\ ~authLoading /\ ~IsAuthenticated) =>
       (location # "/cart" /\ screen # "Cart")
  /\ ( /\ lastOp.name = "navigate" /\ lastOp.to = "/cart"
       /\ Settled /\ ~IsAuthenticated ) =>
       (location = "/login" /\ screen = "Login")

C15_Witness ==
  /\ lastOp.name = "navigate" /\ lastOp.to = "/cart"
  /\ Settled /\ ~authLoading /\ ~IsAuthenticated
  /\ location = "/login" /\ screen = "Login"


CartFunctions == {"addToCart", "updateQuantity", "removeFromCart", "clearCart"}

\* C16: a call of addToCart, updateQuantity, removeFromCart or clearCart
\* issues its setCart first and its backend request after it, issues a
\* request only when isAuthenticated was true, and issues none otherwise
C16_OptimisticOrdering ==
  lastOp.name \in CartFunctions =>
    /\ log # <<>> /\ log[1] = "setCart"
    /\ \A i \in 2..Len(log) : log[i] # "setCart" /\ lastOp.auth
    /\ ~lastOp.auth => log = <<"setCart">>
    /\ lastOp.auth => Len(log) = 2

C16_Witness ==
  /\ lastOp.name = "removeFromCart" /\ lastOp.auth
  /\ log = <<"setCart", "DELETE /cart/:id">>
  /\ \E i \in 1..Len(inflight) : inflight[i].kind = "remove"


\* C17: every response with status 401 removes 'token' and 'user' from
\* localStorage, sends the browser to /login and is still rejected to the
\* caller; an error response with another status is rejected and leaves
\* 'token' and 'user' as they were
C17_UnauthorizedLogsOut ==
  [][ lastResp'.n # lastResp.n =>
        /\ lastResp'.status = 401 =>
             /\ ls'.token = Absent /\ ls'.user = Absent
             /\ location' = "/login" /\ reloading'
             /\ lastResp'.rejected
        /\ lastResp'.status \notin {200, 401} =>
             /\ ls'.token = ls.token /\ ls'.user = ls.user
             /\ ~reloading' /\ location' = location
             /\ lastResp'.rejected ]_vars

C17_Witness ==
  /\ reloading /\ lastResp.status = 401 /\ lastResp.hadToken /\ lastResp.rejected
  /\ ls.token = Absent /\ ls.user = Absent /\ location = "/login"


\* the unit price of an entry: that of its product, else its own, else 0
UnitPrice(item) ==
  IF item.product # Absent THEN item.product[1].price
  ELSE IF item.price # Absent THEN item.price[1]
  ELSE 0

\* the sum of unit price times quantity over the entries
LineSum(items) ==
  LET S[i \in 0..Len(items)] ==
        IF i = 0 THEN 0 ELSE S[i - 1] + UnitPrice(items[i]) * items[i].quantity
  IN S[Len(items)]

\* C18: getCartTotal is the sum of unit price times quantity over the entries
\* of the current cart, whatever calls produced it, and 0 for an empty cart
C18_CartTotal ==
  /\ GetCartTotal(cart) = LineSum(cart)
  /\ cart = <<>> => GetCartTotal(cart) = 0

C18_Witness ==
  /\ lastOp.name \in CartFunctions /\ Settled
  /\ Len(cart) = 2 /\ cart[1].quantity = 2
  /\ GetCartTotal(cart) = 4


\* the render that follows the call recorded in lastOp, when the call is the
\* only source of the updates it applies
RendersCall(name) == lastOp.name = name /\ lastOp.settled /\ flush /\ ~flush'

\* the places of the entries for a product id
EntriesOf(items, id) == {i \in 1..Len(items) : ProductIdOf(items[i]) = Some(id)}

\* C19: addToCart(product, q) for a product in the cart adds no entry, makes
\* the quantity of the product's entry its previous quantity + q and leaves
\* the other entries alone; for a product not in the cart it appends exactly
\* one entry {product, quantity q, price product.price} at the end
C19_AddToCart ==
  [][ RendersCall("addToCart") =>
        LET product == CHOOSE p \in FrontProducts : p.id = lastOp.id
            q == lastOp.quantity
            present == EntriesOf(cart, lastOp.id)
        IN IF present # {}
           THEN /\ Len(cart') = Len(cart)
                /\ \A i \in 1..Len(cart) :
                     cart'[i] = IF i \in present
                                THEN [cart[i] EXCEPT !.quantity = cart[i].quantity + q]
                                ELSE cart[i]
           ELSE /\ Len(cart') = Len(cart) + 1
                /\ SubSeq(cart', 1, Len(cart)) = cart
                /\ cart'[Len(cart')] = [product |-> Some(product), quantity |-> q,
                                        price |-> Some(product.price)] ]_vars


\* C20: updateQuantity(productId, q) with q <= 0 leaves no entry with that
\* product id and, when authenticated, sends a remove request and no update
\* request; with q >= 1 it sets the quantity of the matching entry to q and
\* keeps the number of entries
C20_UpdateQuantity ==
  [][ RendersCall("updateQuantity") =>
        IF lastOp.quantity <= 0
        THEN /\ EntriesOf(cart', lastOp.id) = {}
             /\ lastOp.auth =>
                  /\ log = <<"setCart", "DELETE /cart/:id">>
                  /\ inflight # <<>>
                  /\ inflight[Len(inflight)] = Request("remove", lastOp.id, 0)
             /\ ~lastOp.auth => log = <<"setCart">>
        ELSE /\ Len(cart') = Len(cart)
             /\ EntriesOf(cart', lastOp.id) = EntriesOf(cart, lastOp.id)
             /\ \A i \in EntriesOf(cart, lastOp.id) :
                  cart'[i].quantity = lastOp.quantity ]_vars

C20_Witness ==
  /\ lastOp.name = "updateQuantity" /\ lastOp.quantity <= 0
  /\ lastOp.settled /\ lastOp.auth /\ ~flush
  /\ EntriesOf(lastOp.before, lastOp.id) # {}
  /\ EntriesOf(cart, lastOp.id) = {}
  /\ inflight # <<>> /\ inflight[Len(inflight)].kind = "remove"


\* the cart the server keeps for the user: product id and quantity per item
ServerView(items) ==
  LET withProduct == SelectSeq(items, LAMBDA item : item.product # Absent)
  IN [i \in 1..Len(withProduct) |->
        [productId |-> withProduct[i].product[1].id,
         quantity |-> withProduct[i].quantity]]

\* what a request that succeeds does to the cart of the server
ServerApply(server, r) ==
  CASE r.kind = "add" -> Append(server, [productId |-> r.id, quantity |-> r.quantity])
    [] r.kind = "update" ->
         [i \in 1..Len(server) |->
            IF server[i].productId = r.id
            THEN [server[i] EXCEPT !.quantity = r.quantity]
            ELSE server[i]]
    [] r.kind = "remove" -> SelectSeq(server, LAMBDA x : x.productId # r.id)
    [] r.kind = "clear" -> <<>>
    [] OTHER -> server

\* the request that matches a call made on the cart items
MatchingRequest(name, id, quantity, items) ==
  LET present == SelectSeq(items, LAMBDA item : ProductIdOf(item) = Some(id))
  IN CASE name = "addToCart" ->
            IF present = <<>> THEN Request("add", id, quantity)
            ELSE Request("update", id, present[1].quantity + quantity)
       [] name = "updateQuantity" ->
            IF quantity >= 1 THEN Request("update", id, quantity)
            ELSE Request("remove", id, 0)
       [] name = "removeFromCart" -> Request("remove", id, 0)
       [] name = "clearCart" -> Request("clear", 0, 0)

MaxFetches == 4

\* the app is not in use, in a development or a production build
AppIdle ==
  /\ ls = [token |-> <<>>, user |-> <<>>, cart |-> <<>>]
  /\ user = <<>> /\ authLoading = TRUE /\ cart = <<>>
  /\ pending = <<>> /\ effects = <<>> /\ flush = FALSE
  /\ location = "/products" /\ screen = "none"
  /\ inflight = <<>> /\ callers = <<>> /\ reloading = FALSE
  /\ lastOp = [name |-> "none"] /\ log = <<>>
  /\ lastResp = [n |-> 0] /\ ops = 0

\* how productsAPI.getAll ends: with success and data, without them, or by
\* throwing
Outcomes == {"ok", "nodata", "throw"}

\* response.data.products: ids of the products, or undefined
Listings == {Absent, Some(<<1>>), Some(<<1, 2>>)}

\* StrictMode runs the effect of a mount twice in a development build
MountRuns(strictMode) == IF strictMode THEN 2 ELSE 1

\* the Products component after its first render
ProductsMounted(instance, calls) ==
  [name |-> "Products", instance |-> instance, products |-> <<>>,
   loading |-> TRUE, error |-> "", effects |-> MountRuns(strict),
   calls |-> calls, tick |-> 0, lastDone |-> "none"]

ProductsInit ==
  /\ BackendOff /\ AppIdle /\ strict \in BOOLEAN
  /\ view = ProductsMounted(1, 0)
  /\ fetches = <<>>

\* fetchProducts up to its await
FetchProductsStart ==
  /\ view' = [view EXCEPT !.loading = TRUE, !.error = "", !.calls = @ + 1,
                          !.effects = IF @ > 0 THEN @ - 1 ELSE 0]
  /\ fetches' = Append(fetches, [instance |-> view.instance])

\* useEffect(() => { fetchProducts() }, [])
ProductsEffect ==
  /\ view.effects > 0
  /\ FetchProductsStart
  /\ UNCHANGED <<backendVars, appVars>>

\* the Retry button, rendered with the error
Retry ==
  /\ view.effects = 0 /\ ~view.loading /\ view.error # ""
  /\ view.calls < MaxFetches
  /\ FetchProductsStart
  /\ UNCHANGED <<backendVars, appVars>>

\* fetchProducts after its await: try, catch and finally
FetchProductsEnd(v, outcome, listing) ==
  LET done == CASE outcome = "ok" ->
                     [v EXCEPT !.products = IF listing = Absent THEN <<>>
                                            ELSE listing[1]]
                [] outcome = "nodata" ->
                     [v EXCEPT !.error = "Failed to load products"]
                [] outcome = "throw" ->
                     [v EXCEPT !.error = "Failed to load products. Please try again."]
  IN [done EXCEPT !.loading = FALSE]

\* a request of the page ends; a component that is gone ignores it
ProductsResponse ==
  /\ view.effects = 0
  /\ \E i \in 1..Len(fetches), outcome \in Outcomes, listing \in Listings :
       /\ fetches' = SubSeq(fetches, 1, i - 1) \o SubSeq(fetches, i + 1, Len(fetches))
       /\ view' = IF fetches[i].instance = view.instance
                  THEN [FetchProductsEnd(view, outcome, listing)
                          EXCEPT !.tick = 1 - @, !.lastDone = outcome]
                  ELSE view
  /\ UNCHANGED <<backendVars, appVars>>

\* the user leaves the page and comes back: a new component
ProductsRemount ==
  /\ view.effects = 0
  /\ view.calls + MountRuns(strict) <= MaxFetches
  /\ view' = ProductsMounted(view.instance + 1, view.calls)
  /\ UNCHANGED fetches
  /\ UNCHANGED <<backendVars, appVars>>

ProductsNext == ProductsEffect \/ Retry \/ ProductsResponse \/ ProductsRemount

ProductsSpec == ProductsInit /\ [][ProductsNext]_vars


\* C22: a fetchProducts call that ends leaves loading false, whether the
\* request succeeded, answered without success or data, or threw; when
\* nothing is loading, error is non-empty exactly when the fetch that
\* completed last failed; Retry clears the error and turns loading on
\* before it fetches again
C22_ProductsLoadingStates ==
  [][ /\ ( view'.instance = view.instance /\ view'.tick # view.tick ) =>
           ~view'.loading
      /\ ( ~view'.loading /\ view'.lastDone # "none" ) =>
           ( (view'.error # "") <=> (view'.lastDone \in {"nodata", "throw"}) )
      /\ ( view'.instance = view.instance /\ view.effects = 0
           /\ view'.calls = view.calls + 1 ) =>
           /\ view'.error = "" /\ view'.loading
           /\ Len(fetches') = Len(fetches) + 1 ]_vars


(* ------------------------------------------------ more on the product list *)
\* the sort keys a caller may name
RecognizedSortKeys == {"newest", "price_asc", "price_desc", "rating"}

\* C23: a request that names a sort key outside the recognized ones is
\* answered with an error, not with a normal page of products
C23_UnknownSortRejected ==
  ( /\ Called /\ req.query.sort # "undefined"
    /\ req.query.sort \notin RecognizedSortKeys ) => ~res.success


(* ------------------------------------------------------- more on the cart *)
\* C24: in every state the cart holds at most one entry per product id
C24_OneEntryPerProduct ==
  \A p \in FrontProducts : Cardinality(EntriesOf(cart, p.id)) <= 1


\* C25: the item of the last addToCart is in the cart and in localStorage
\* 'cart' whenever the app has settled, as long as no removeFromCart,
\* updateQuantity or clearCart was called since: a cart sync whose response
\* arrives after the add does not take it out
C25_AddedItemStays ==
  ( lastOp.name = "addToCart" /\ Settled ) =>
    /\ EntriesOf(cart, lastOp.id) # {}
    /\ ls.cart # Absent /\ ls.cart[1].valid
    /\ EntriesOf(ls.cart[1].value, lastOp.id) # {}


CartRequests == {"add", "update", "remove", "clear"}

\* C26: when the request of addToCart, updateQuantity, removeFromCart or
\* clearCart fails, no cart update is queued to take the optimistic change
\* back, and the call returns {success: true}, never {success: false}
C26_FailureKeepsChange ==
  [][ ( /\ lastResp'.n # lastResp.n
        /\ lastResp'.kind \in CartRequests /\ lastResp'.status # 200 ) =>
          /\ cart' = cart /\ pending' = pending
          /\ lastResp'.result = Some([success |-> TRUE]) ]_vars


(* ------------------------------------------- the pages that use the cart *)
\* the state of the ProductDetail component that its add button reads
DetailView(product, quantity) ==
  [name |-> "ProductDetail", product |-> product, quantity |-> quantity]

\* the component of the page on screen: ProductDetail mounts with no product
\* and quantity 1 and keeps its state while it stays on screen
ViewAfter(before, after) ==
  IF after = "ProductDetail"
  THEN IF before = "ProductDetail" THEN view ELSE DetailView(Absent, 1)
  ELSE [name |-> "none"]

UiRender == RenderApp /\ view' = ViewAfter(screen, screen') /\ UNCHANGED fetches

UiReload == ReloadApp /\ view' = ViewAfter("none", screen') /\ UNCHANGED fetches

\* Products: handleProductClick
HandleProductClick ==
  /\ Idle /\ ops < MaxOps /\ screen = "Products"
  /\ \E p \in FrontProducts :
       /\ location' = PathOf(p.id)
       /\ lastOp' = [name |-> "navigate", to |-> PathOf(p.id)]
  /\ ops' = ops + 1
  /\ flush' = TRUE
  /\ UNCHANGED <<strict, ls, user, authLoading, cart, pending, effects, screen,
                 inflight, callers, reloading, log, lastResp>>
  /\ UNCHANGED <<backendVars, pageVars>>

\* ProductDetail: fetchProduct delivers the product of the route
ProductLoaded ==
  /\ Idle /\ screen = "ProductDetail" /\ view.product = Absent
  /\ \E p \in FrontProducts :
       /\ p.id = IdOf(location)
       /\ view' = [view EXCEPT !.product = Some(p)]
  /\ UNCHANGED fetches
  /\ UNCHANGED <<backendVars, appVars>>

\* the button of a card or of the product page is disabled while its
\* addToCart has not returned
Adding(id) ==
  \E i \in 1..Len(inflight) : callers[i] = "addToCart" /\ inflight[i].id = id

\* ProductCard: handleAddToCart
ProductCardAdd ==
  /\ screen = "Products"
  /\ \E p \in FrontProducts :
       /\ p.stock # 0 /\ ~Adding(p.id)
       /\ \A i \in 1..Len(cart) : cart[i].quantity + 1 <= MaxQuantity
       /\ CartCall("addToCart", p.id, 1, AddToCart(cart, p, 1, IsAuthenticated))

\* what the user may type into the quantity field
Typed == {<<>>, <<"x">>, <<"0">>, <<"-", "1">>, <<"2">>, <<"3">>}

\* Math.max(1, parseInt(e.target.value) || 1)
ClampQuantity(typed) ==
  LET n == ParseInt(typed)
      orOne == IF n.nan \/ n.v = 0 THEN 1 ELSE n.v
  IN IF orOne > 1 THEN orOne ELSE 1

\* ProductDetail: onChange of the quantity field
SetQuantity ==
  /\ Idle /\ screen = "ProductDetail" /\ view.product # Absent
  /\ \E typed \in Typed :
       /\ ClampQuantity(typed) <= MaxQuantity
       /\ view' = [view EXCEPT !.quantity = ClampQuantity(typed)]
  /\ UNCHANGED fetches
  /\ UNCHANGED <<backendVars, appVars>>

\* ProductDetail: handleAddToCart
ProductDetailAdd ==
  /\ screen = "ProductDetail" /\ view.product # Absent
  /\ LET p == view.product[1]
     IN /\ p.stock # 0 /\ ~Adding(p.id)
        /\ \A i \in 1..Len(cart) : cart[i].quantity + view.quantity <= MaxQuantity
        /\ CartCall("addToCart", p.id, view.quantity,
                    AddToCart(cart, p, view.quantity, IsAuthenticated))

\* a handleQuantityChange that passes every quantity on
HandleQuantityChangeNoGuard(productId, newQuantity, isAuthenticated) ==
  UpdateQuantity(productId, newQuantity, isAuthenticated)

\* Cart: handleQuantityChange
HandleQuantityChange(productId, newQuantity, isAuthenticated) ==
  IF newQuantity < 1 THEN Effect(<<>>, <<>>, <<>>)
  ELSE UpdateQuantity(productId, newQuantity, isAuthenticated)

\* Cart: the + and - buttons of an entry that has a product
QuantityButton(delta) ==
  \E i \in 1..Len(cart) :
    /\ cart[i].product # Absent
    /\ cart[i].quantity + delta <= MaxQuantity
    /\ CartCall("handleQuantityChange", cart[i].product[1].id,
                cart[i].quantity + delta,
                HandleQuantityChange(cart[i].product[1].id,
                                     cart[i].quantity + delta, IsAuthenticated))

CartPlus == screen = "Cart" /\ QuantityButton(1)

CartMinus == screen = "Cart" /\ QuantityButton(0 - 1)

\* Cart: handleRemove
HandleRemove ==
  /\ screen = "Cart"
  /\ \E i \in 1..Len(cart) :
       /\ cart[i].product # Absent
       /\ CartCall("removeFromCart", cart[i].product[1].id, 0,
                   RemoveFromCart(cart[i].product[1].id, IsAuthenticated))

\* Cart: handleClearCart, confirmed
HandleClearCart ==
  /\ screen = "Cart" /\ cart # <<>>
  /\ CartCall("clearCart", 0, 0, ClearCart(IsAuthenticated))

UiNext ==
  \/ UiReload
  \/ CartLoadEffect \/ CartSaveEffect \/ CartSyncEffect \/ AuthCheckEffect
  \/ UiRender
  \/ HandleProductClick \/ ProductLoaded
  \/ ProductCardAdd \/ SetQuantity \/ ProductDetailAdd
  \/ CartPlus \/ CartMinus \/ HandleRemove \/ HandleClearCart
  \/ Login \/ Logout \/ Navigate
  \/ Response

UiSpec == AppInit /\ [][UiNext]_vars


\* C27: in every state reached through the pages every cart entry has a
\* quantity of at least 1, and the - button of an entry of quantity 1 does
\* nothing: it queues no update, sends no request and leaves the entry alone.
C27_QuantityAtLeastOne ==
  /\ \A i \in 1..Len(cart) : cart[i].quantity >= 1
  /\ [][ /\ \A i \in 1..Len(cart') : cart'[i].quantity >= 1
         /\ ( /\ ops' # ops
              /\ lastOp'.name = "handleQuantityChange"
              /\ lastOp'.quantity < 1 ) =>
                /\ pending' = pending
                /\ inflight' = inflight
                /\ cart' = cart ]_vars

C27_Witness ==
  /\ lastOp.name = "handleQuantityChange"
  /\ lastOp.quantity = 0
  /\ Settled
  /\ \E i \in 1..Len(cart) :
       ProductIdOf(cart[i]) = Some(lastOp.id) /\ cart[i].quantity = 1


\* C30: in every state reached through the pages the quantity of a cart entry
\* is at most the stock of its product, so a product without stock is never
\* in the cart.
C30_QuantityWithinStock ==
  \A i \in 1..Len(cart) :
    cart[i].product # Absent => cart[i].quantity <= cart[i].product[1].stock


\* the entries of the other product ids, in their order
OtherEntries(items, id) ==
  SelectSeq(items, LAMBDA item : ProductIdOf(item) # Some(id))

\* C29: removeFromCart(productId) and updateQuantity(productId, q) leave the
\* entries of every other product id as they were and in the same order, and
\* removeFromCart of a product id that is not in the cart leaves the cart as
\* it was.
C29_OtherEntriesUntouched ==
  [][ ( RendersCall("removeFromCart") \/ RendersCall("updateQuantity") ) =>
        /\ OtherEntries(cart', lastOp.id) = OtherEntries(cart, lastOp.id)
        /\ ( lastOp.name = "removeFromCart" /\ EntriesOf(cart, lastOp.id) = {} ) =>
             cart' = cart ]_vars

C29_Witness ==
  /\ lastOp.name \in {"removeFromCart", "updateQuantity"}
  /\ Settled
  /\ EntriesOf(lastOp.before, lastOp.id) # {}
  /\ OtherEntries(lastOp.before, lastOp.id) # <<>>
  /\ OtherEntries(cart, lastOp.id) = OtherEntries(lastOp.before, lastOp.id)


(* ------------------------------------------------------- the product page *)
\* the ids a route /products/:id may name
RouteIds == {1, 2}

\* the ProductDetail component after its first render on route /products/id
DetailMounted(instance, id, calls) ==
  [name |-> "ProductDetail", instance |-> instance, id |-> id,
   product |-> Absent, loading |-> TRUE, error |-> "",
   effects |-> MountRuns(strict), calls |-> calls]

DetailInit ==
  /\ BackendOff /\ AppIdle /\ strict \in BOOLEAN
  /\ \E id \in RouteIds : view = DetailMounted(1, id, 0)
  /\ fetches = <<>>

\* fetchProduct up to its await: the request is for the id of this render
FetchProductStart ==
  /\ view' = [view EXCEPT !.loading = TRUE, !.error = "", !.calls = @ + 1,
                          !.effects = @ - 1]
  /\ fetches' = Append(fetches, [instance |-> view.instance, id |-> view.id])

\* useEffect(() => { fetchProduct() }, [id])
DetailEffect ==
  /\ view.effects > 0
  /\ FetchProductStart
  /\ UNCHANGED <<backendVars, appVars>>

\* the route goes to another product while the component stays on screen:
\* the component renders with the new id and its effect runs again
RouteChange ==
  /\ view.effects = 0 /\ view.calls < MaxFetches
  /\ \E id \in RouteIds \ {view.id} :
       view' = [view EXCEPT !.id = id, !.effects = 1]
  /\ UNCHANGED fetches
  /\ UNCHANGED <<backendVars, appVars>>

\* fetchProduct after its await: try, catch and finally; product is the
\* id of response.data.product
FetchProductEnd(v, outcome, product) ==
  LET done == CASE outcome = "ok" -> [v EXCEPT !.product = Some(product)]
                [] outcome = "nodata" -> [v EXCEPT !.error = "Product not found"]
                [] outcome = "throw" ->
                     [v EXCEPT !.error = "Failed to load product. Please try again."]
  IN [done EXCEPT !.loading = FALSE]

\* a getById request ends, in any order; the server answers with the product
\* of the requested id; a component that is gone ignores the answer
DetailResponse ==
  /\ view.effects = 0
  /\ \E i \in 1..Len(fetches), outcome \in Outcomes :
       /\ fetches' = SubSeq(fetches, 1, i - 1) \o SubSeq(fetches, i + 1, Len(fetches))
       /\ view' = IF fetches[i].instance = view.instance
                  THEN FetchProductEnd(view, outcome, fetches[i].id)
                  ELSE view
  /\ UNCHANGED <<backendVars, appVars>>

\* the user leaves the page and opens a product page again: a new component
DetailRemount ==
  /\ view.effects = 0
  /\ view.calls + MountRuns(strict) <= MaxFetches
  /\ \E id \in RouteIds : view' = DetailMounted(view.instance + 1, id, view.calls)
  /\ UNCHANGED fetches
  /\ UNCHANGED <<backendVars, appVars>>

DetailNext == DetailEffect \/ RouteChange \/ DetailResponse \/ DetailRemount

DetailSpec == DetailInit /\ [][DetailNext]_vars

\* what the component renders
Shown(v) ==
  IF v.loading THEN "loading"
  ELSE IF v.error # "" \/ v.product = Absent THEN "error"
  ELSE "product"

\* C28: once every getById request has ended, a product page that shows a
\* product shows the product of the current route, also when the route id
\* changed while a request was in flight and the answers came out of order
C28_ShowsRouteProduct ==
  ( /\ view.name = "ProductDetail"
    /\ view.effects = 0 /\ fetches = <<>>
    /\ Shown(view) = "product" ) => view.product = Some(view.id)

====
